---- MODULE Spec2Model ----
(***************************************************************************)
(* Model of the helixTool tool command (helixTool.cpp): the four helix     *)
(* parameters, the dag path to the curve it created, and the doIt /        *)
(* redoIt / undoIt / finalize handlers, together with the host scene the   *)
(* handlers act on through MFnNurbsCurve::create and MGlobal::deleteNode.  *)
(*                                                                         *)
(* Numbers.  A double is carried as an integer number of hundredths        *)
(* (2.0 is 200, 0.25 is 25).  cos and sin are carried in thousandths, from *)
(* the tables below, so a control-vertex coordinate radius*cos(i) is in    *)
(* units of 1e-5 and upFactor*pitch*i in units of 1e-2.  unsigned is       *)
(* 32 bits wide: an unsigned value in the arithmetic of redoIt is carried  *)
(* as its two 16-bit halves, [hi, lo], and every result is reduced modulo  *)
(* 2^32 by reducing the high half modulo W16.                              *)
(***************************************************************************)
EXTENDS Integers, Sequences, FiniteSets

VARIABLES
    radius,       \* double   helixTool::radius
    pitch,        \* double   helixTool::pitch
    numCV,        \* unsigned helixTool::numCV
    upDown,       \* bool     helixTool::upDown
    path,         \* MDagPath helixTool::path
    scene,        \* the set of nodes that exist in the host scene
    nextNode,     \* the next node the host allocates
    state,        \* where the command is in the host's do/undo/redo cycle
    passed,       \* what the latest redoIt handed to MFnNurbsCurve::create
    created,      \* what the doIt handed to MFnNurbsCurve::create
    sceneBefore,  \* the scene on entry to the latest redoIt body
    journal,      \* the MArgList the latest finalize handed to doFinalize
    lastOp,       \* the handler the host ran last (or the out-of-band event)
    prevOp,       \* the one before it
    lastStatus    \* the MStatus the last handler returned

vars == <<radius, pitch, numCV, upDown, path, scene, nextNode, state, passed,
          created, sceneBefore, journal, lastOp, prevOp, lastStatus>>

params == <<radius, pitch, numCV, upDown>>

(***************************************************************************)
(* Bounds of the model.                                                    *)
(***************************************************************************)
MaxCreates == 3
MaxSmallCV == 4

(***************************************************************************)
(* Program constants.                                                      *)
(***************************************************************************)
W16 == 65536
SignBit16 == 32768
deg == 3
DefaultNumCV == 20
commandString == "helixToolCmd"
kRadiusFlag == "-r"
kPitchFlag == "-p"
kNumberCVsFlag == "-ncv"
kUpsideDownFlag == "-ud"

kSuccess == "kSuccess"
ArgumentError == "ArgumentError"
ConstructionError == "ConstructionError"
DeletionError == "DeletionError"

(***************************************************************************)
(* The values the inputs are drawn from.  radius and pitch are not set by  *)
(* the constructor, so a new command starts with whatever the memory held: *)
(* any of the values below.                                                *)
(***************************************************************************)
RadiusVals == {200, 500}
PitchVals == {25, 100}
NumCVVals == (0..MaxSmallCV) \cup {10, 20}

CosTab == <<1000, 540, -416, -990, -654, 284, 960, 754, -146, -911, -839, 4,
            844, 907, 137, -760, -958, -275, 660, 989, 408, -548, -1000,
            -533, 424>>
SinTab == <<0, 841, 909, 141, -757, -959, -279, 657, 989, 412, -544, -1000,
            -537, 420, 991, 650, -288, -961, -751, 150, 913, 837, -9, -846,
            -906>>

cos(i) == CosTab[i + 1]
sin(i) == SinTab[i + 1]

(***************************************************************************)
(* The host scene.  MFnNurbsCurve::create with a null parent makes a       *)
(* transform node n and the curve shape n + 1 under it; transforms are the *)
(* even nodes.  The scene starts with one such pair, 0 and 1, not made by  *)
(* this command.                                                           *)
(***************************************************************************)
NoPath == [transform |-> -1, shape |-> -1]
NoCall == [called |-> FALSE, cvs |-> <<>>, knots |-> <<>>, degree |-> 0,
           spans |-> [hi |-> 0, lo |-> 0]]

Children(n, sc) == IF n % 2 = 0 THEN {n + 1} \cap sc ELSE {}

DeleteNode_keepChildren(n, sc) ==
    IF n \in sc
    THEN [status |-> kSuccess, scene |-> sc \ {n}]
    ELSE [status |-> DeletionError, scene |-> sc]

\* MGlobal::deleteNode: removes the node and what is under it; fails on a
\* node that does not exist (a null MObject included).
DeleteNode(n, sc) ==
    IF n \in sc
    THEN [status |-> kSuccess, scene |-> sc \ ({n} \cup Children(n, sc))]
    ELSE [status |-> DeletionError, scene |-> sc]

(***************************************************************************)
(* parseArgs.  A flag of the MArgDatabase is not set, set with a value of  *)
(* its type, or set with a value getFlagArgument cannot convert.           *)
(***************************************************************************)
FlagArgs(V) ==
    {[set |-> FALSE, ok |-> TRUE, val |-> CHOOSE v \in V : TRUE],
     [set |-> TRUE, ok |-> FALSE, val |-> CHOOSE v \in V : TRUE]}
    \cup {[set |-> TRUE, ok |-> TRUE, val |-> v] : v \in V}

ArgLists ==
    [p : FlagArgs(PitchVals), r : FlagArgs(RadiusVals),
     ncv : FlagArgs(NumCVVals), ud : FlagArgs(BOOLEAN)]

Parsed(st, p, r, n, u) ==
    [status |-> st, pitch |-> p, radius |-> r, numCV |-> n, upDown |-> u]

\* The flags are read in the order pitch, radius, numCVs, upsideDown; the
\* first one that fails returns, with the earlier ones already stored.
parseArgs(args) ==
    IF args.p.set /\ ~args.p.ok
    THEN Parsed(ArgumentError, pitch, radius, numCV, upDown)
    ELSE LET p1 == IF args.p.set THEN args.p.val ELSE pitch IN
      IF args.r.set /\ ~args.r.ok
      THEN Parsed(ArgumentError, p1, radius, numCV, upDown)
      ELSE LET r1 == IF args.r.set THEN args.r.val ELSE radius IN
        IF args.ncv.set /\ ~args.ncv.ok
        THEN Parsed(ArgumentError, p1, r1, numCV, upDown)
        ELSE LET n1 == IF args.ncv.set THEN args.ncv.val ELSE numCV IN
          IF args.ud.set /\ ~args.ud.ok
          THEN Parsed(ArgumentError, p1, r1, n1, upDown)
          ELSE LET u1 == IF args.ud.set THEN args.ud.val ELSE upDown IN
            Parsed(kSuccess, p1, r1, n1, u1)

(***************************************************************************)
(* The body of redoIt: the control vertices and the knots of the helix.    *)
(***************************************************************************)
\* An unsigned from a number below 2^31, and back.
U32(n) == [hi |-> n \div W16, lo |-> n % W16]
UInt(a) == a.hi * W16 + a.lo

\* Unsigned subtraction and addition, modulo 2^32.
USub(a, b) ==
    LET lo == a.lo - b.lo
        borrow == IF lo < 0 THEN 1 ELSE 0
    IN  [hi |-> (a.hi - b.hi - borrow) % W16, lo |-> lo % W16]

UAdd(a, b) ==
    LET lo == a.lo + b.lo
        carry == lo \div W16
    IN  [hi |-> (a.hi + b.hi + carry) % W16, lo |-> lo % W16]

Spans_saturating(ncvs) ==
    IF ncvs < deg THEN U32(0) ELSE USub(U32(ncvs), U32(deg))

\* const unsigned spans = ncvs - deg;
Spans(ncvs) == USub(U32(ncvs), U32(deg))

NKnots_offByOne(spans) == UAdd(spans, U32(2 * deg))

\* const unsigned nknots = spans+2*deg-1;
NKnots(spans) == USub(UAdd(spans, U32(2 * deg)), U32(1))

upFactor(u) == IF u THEN -1 ELSE 1

\* for (i = 0; i < ncvs; i++) controlVertices.append(MPoint(...));
controlVertices(r, p, ncvs, u) ==
    [k \in 1..ncvs |->
        LET i == k - 1
        IN  <<r * cos(i), upFactor(u) * p * i, r * sin(i)>>]

knotSequences_fromOne(nknots) == [k \in 1..nknots |-> k]

\* for (i = 0; i < nknots; i++) knotSequences.append((double) i);
knotSequences(nknots) == [k \in 1..nknots |-> k - 1]

\* The locals of redoIt at the call of curveFn.create.
CurveArgs(r, p, n, u) ==
    LET ncvs == n
        spans == Spans(ncvs)
        nknots == NKnots(spans)
    IN  [called |-> TRUE,
         cvs |-> controlVertices(r, p, ncvs, u),
         knots |-> knotSequences(UInt(nknots)),
         degree |-> deg,
         spans |-> spans]

Construct_clearOnFailure(r, p, n, u, ok) ==
    /\ passed' = CurveArgs(r, p, n, u)
    /\ sceneBefore' = scene
    /\ IF ok
       THEN /\ scene' = scene \cup {nextNode, nextNode + 1}
            /\ nextNode' = nextNode + 2
            /\ path' = [transform |-> nextNode, shape |-> nextNode + 1]
            /\ lastStatus' = kSuccess
       ELSE /\ path' = NoPath
            /\ lastStatus' = ConstructionError
            /\ UNCHANGED <<scene, nextNode>>

\* curveFn.create(...) and, when it succeeds, curveFn.getPath(path).  The
\* host either builds the curve (ok) or rejects the data.
Construct(r, p, n, u, ok) ==
    /\ passed' = CurveArgs(r, p, n, u)
    /\ sceneBefore' = scene
    /\ IF ok
       THEN /\ scene' = scene \cup {nextNode, nextNode + 1}
            /\ nextNode' = nextNode + 2
            /\ path' = [transform |-> nextNode, shape |-> nextNode + 1]
            /\ lastStatus' = kSuccess
       ELSE /\ lastStatus' = ConstructionError
            /\ UNCHANGED <<scene, nextNode, path>>

CanCreate == nextNode < 2 + 2 * MaxCreates

(***************************************************************************)
(* The handlers.  The host runs doIt once on a new command, then undoIt    *)
(* and redoIt in turn; the setters configure the command before it runs.   *)
(***************************************************************************)
Init ==
    /\ radius \in RadiusVals
    /\ pitch \in PitchVals
    /\ numCV = DefaultNumCV
    /\ upDown = FALSE
    /\ path = NoPath
    /\ scene = {0, 1}
    /\ nextNode = 2
    /\ state = "Initial"
    /\ passed = NoCall
    /\ created = NoCall
    /\ sceneBefore = {0, 1}
    /\ journal = <<>>
    /\ lastOp = "none"
    /\ prevOp = "none"
    /\ lastStatus = kSuccess

Ran(op) == lastOp' = op /\ prevOp' = lastOp

setRadius ==
    /\ state = "Initial"
    /\ \E newRadius \in RadiusVals : radius' = newRadius
    /\ UNCHANGED <<pitch, numCV, upDown, path, scene, nextNode, state, passed,
                   created, sceneBefore, journal,
                   lastOp, prevOp, lastStatus>>

setPitch ==
    /\ state = "Initial"
    /\ \E newPitch \in PitchVals : pitch' = newPitch
    /\ UNCHANGED <<radius, numCV, upDown, path, scene, nextNode, state, passed,
                   created, sceneBefore, journal,
                   lastOp, prevOp, lastStatus>>

setNumCVs ==
    /\ state = "Initial"
    /\ \E newNumCVs \in NumCVVals : numCV' = newNumCVs
    /\ UNCHANGED <<radius, pitch, upDown, path, scene, nextNode, state, passed,
                   created, sceneBefore, journal,
                   lastOp, prevOp, lastStatus>>

setUpsideDown ==
    /\ state = "Initial"
    /\ \E newUpsideDown \in BOOLEAN : upDown' = newUpsideDown
    /\ UNCHANGED <<radius, pitch, numCV, path, scene, nextNode, state, passed,
                   created, sceneBefore, journal,
                   lastOp, prevOp, lastStatus>>

doIt_redoBeforeCheck ==
    /\ state = "Initial"
    /\ CanCreate
    /\ \E args \in ArgLists :
         LET res == parseArgs(args)
         IN  /\ radius' = res.radius
             /\ pitch' = res.pitch
             /\ numCV' = res.numCV
             /\ upDown' = res.upDown
             /\ IF res.status # kSuccess
                THEN /\ passed' = CurveArgs(res.radius, res.pitch,
                                            res.numCV, res.upDown)
                     /\ created' = passed'
                     /\ sceneBefore' = scene
                     /\ scene' = scene \cup {nextNode, nextNode + 1}
                     /\ nextNode' = nextNode + 2
                     /\ path' = [transform |-> nextNode,
                                 shape |-> nextNode + 1]
                     /\ lastStatus' = res.status
                     /\ state' = "Initial"
                ELSE \E ok \in BOOLEAN :
                       /\ Construct(res.radius, res.pitch, res.numCV,
                                    res.upDown, ok)
                       /\ created' = passed'
                       /\ state' = IF ok THEN "Created" ELSE "Failed"
    /\ Ran("doIt")
    /\ UNCHANGED journal

doIt ==
    /\ state = "Initial"
    /\ CanCreate
    /\ \E args \in ArgLists :
         LET res == parseArgs(args)
         IN  /\ radius' = res.radius
             /\ pitch' = res.pitch
             /\ numCV' = res.numCV
             /\ upDown' = res.upDown
             /\ IF res.status # kSuccess
                THEN /\ lastStatus' = res.status
                     /\ state' = "Initial"
                     /\ UNCHANGED <<path, scene, nextNode, passed, created,
                                    sceneBefore>>
                ELSE \E ok \in BOOLEAN :
                       /\ Construct(res.radius, res.pitch, res.numCV,
                                    res.upDown, ok)
                       /\ created' = passed'
                       /\ state' = IF ok THEN "Created" ELSE "Failed"
    /\ Ran("doIt")
    /\ UNCHANGED journal

redoIt_keepPath ==
    /\ state = "Undone"
    /\ CanCreate
    /\ \E ok \in BOOLEAN :
         /\ passed' = CurveArgs(radius, pitch, numCV, upDown)
         /\ sceneBefore' = scene
         /\ IF ok
            THEN /\ scene' = scene \cup {nextNode, nextNode + 1}
                 /\ nextNode' = nextNode + 2
                 /\ lastStatus' = kSuccess
            ELSE /\ lastStatus' = ConstructionError
                 /\ UNCHANGED <<scene, nextNode>>
         /\ state' = IF ok THEN "Created" ELSE "Undone"
    /\ Ran("redoIt")
    /\ UNCHANGED <<radius, pitch, numCV, upDown, path, created, journal>>

redoIt ==
    /\ state = "Undone"
    /\ CanCreate
    /\ \E ok \in BOOLEAN :
         /\ Construct(radius, pitch, numCV, upDown, ok)
         /\ state' = IF ok THEN "Created" ELSE "Undone"
    /\ Ran("redoIt")
    /\ UNCHANGED <<radius, pitch, numCV, upDown, created, journal>>

undoIt_resetNumCV ==
    /\ state = "Created"
    /\ LET transform == path.transform
           res == DeleteNode(transform, scene)
       IN  /\ scene' = res.scene
           /\ lastStatus' = res.status
           /\ state' = IF res.status = kSuccess THEN "Undone" ELSE "Created"
    /\ numCV' = DefaultNumCV
    /\ Ran("undoIt")
    /\ UNCHANGED <<radius, pitch, upDown, path, nextNode, passed,
                   created, sceneBefore, journal>>

undoIt ==
    /\ state = "Created"
    /\ LET transform == path.transform
           res == DeleteNode(transform, scene)
       IN  /\ scene' = res.scene
           /\ lastStatus' = res.status
           /\ state' = IF res.status = kSuccess THEN "Undone" ELSE "Created"
    /\ Ran("undoIt")
    /\ UNCHANGED <<radius, pitch, numCV, upDown, path, nextNode, passed,
                   created, sceneBefore, journal>>

\* (int) numCV
ToInt(n) ==
    LET u == U32(n)
    IN  IF u.hi >= SignBit16 THEN (u.hi - W16) * W16 + u.lo ELSE UInt(u)

finalizeCommand_swapped ==
    <<commandString, kRadiusFlag, pitch, kPitchFlag, radius,
      kNumberCVsFlag, ToInt(numCV), kUpsideDownFlag, upDown>>

\* The MArgList finalize builds.
finalizeCommand ==
    <<commandString, kRadiusFlag, radius, kPitchFlag, pitch,
      kNumberCVsFlag, ToInt(numCV), kUpsideDownFlag, upDown>>

finalize ==
    /\ state # "Initial"
    /\ journal' = finalizeCommand
    /\ lastStatus' = kSuccess
    /\ Ran("finalize")
    /\ UNCHANGED <<radius, pitch, numCV, upDown, path, scene, nextNode, state,
                   passed, created, sceneBefore>>

\* Something other than this command deletes a node of the scene.
OutOfBandDelete ==
    /\ \E n \in scene : scene' = DeleteNode(n, scene).scene
    /\ Ran("outOfBand")
    /\ UNCHANGED <<radius, pitch, numCV, upDown, path, nextNode, state,
                   passed, created, sceneBefore, journal, lastStatus>>

Next ==
    \/ setRadius
    \/ setPitch
    \/ setNumCVs
    \/ setUpsideDown
    \/ doIt
    \/ redoIt
    \/ undoIt
    \/ finalize
    \/ OutOfBandDelete

Spec == Init /\ [][Next]_vars

(***************************************************************************)
(* Properties.                                                             *)
(***************************************************************************)
Creates == {"doIt", "redoIt"}

\* C1: when undoIt runs directly after a doIt or redoIt that built a curve
\* of more than 3 control vertices, it succeeds and the set of nodes in the
\* scene is again the set there was before that doIt or redoIt.
C1_CreateUndoRoundTrip ==
    (lastOp = "undoIt" /\ prevOp \in Creates /\ numCV > deg)
        => (lastStatus = kSuccess /\ scene = sceneBefore)

C1_Witness ==
    /\ lastOp = "undoIt"
    /\ prevOp = "doIt"
    /\ numCV > deg
    /\ lastStatus = kSuccess
    /\ sceneBefore = {0, 1}
    /\ scene = sceneBefore

\* C2: redoIt and undoIt leave radius, pitch, numCV and upDown as they are,
\* and every redoIt hands the curve constructor the control vertices and
\* knots that the doIt handed it.
C2_RedoReproducesCreate ==
    [][lastOp' \in {"redoIt", "undoIt"}
         => /\ params' = params
            /\ (lastOp' = "redoIt" => (passed'.called /\ passed' = created))
      ]_vars

C2_Witness ==
    /\ lastOp = "redoIt"
    /\ prevOp = "undoIt"
    /\ passed.called
    /\ passed = created
    /\ Len(passed.cvs) = 10
    /\ nextNode > 4

\* C3: a command on which no handler has run, still holding the
\* constructor's numCV = 20 and upDown = false, also holds radius 2.0 and
\* pitch 0.25 (so that doIt with no flags would put vertex 0 at (2.0, 0, 0)).
C3_ConstructorDefaults ==
    (lastOp = "none" /\ numCV = DefaultNumCV /\ ~upDown)
        => (radius = 200 /\ pitch = 25)

\* C4: a doIt whose parseArgs fails does not call the curve constructor,
\* leaves the scene as it is, stores no path, and leaves the command where
\* it was, with nothing to undo.
C4_ParseFailureAborts ==
    [][(lastOp' = "doIt" /\ lastStatus' = ArgumentError)
         => /\ passed' = passed
            /\ ~passed'.called
            /\ scene' = scene
            /\ nextNode' = nextNode
            /\ path' = NoPath
            /\ state' = "Initial"
            /\ ~(ENABLED undoIt)'
      ]_vars

C4_Witness ==
    /\ lastOp = "doIt"
    /\ lastStatus = ArgumentError
    /\ state = "Initial"
    /\ path = NoPath
    /\ ~passed.called
    /\ pitch = 100

\* C5 as stated: after a doIt or redoIt in which the curve constructor
\* rejected the data, the command holds no path.
C5_NoHandleAfterRejection ==
    (lastOp \in Creates /\ lastStatus = ConstructionError) => path = NoPath

\* C5: when the curve constructor rejects the data, doIt and redoIt return
\* the error, change nothing in the scene and leave the stored path as it
\* was: no path after a failed doIt, the path of the deleted curve after a
\* failed redoIt.
C5_RejectionLeavesPath ==
    [][(lastOp' \in Creates /\ lastStatus' = ConstructionError)
         => /\ passed'.called
            /\ path' = path
            /\ scene' = scene
            /\ (lastOp' = "doIt" => path' = NoPath)
            /\ (lastOp' = "redoIt"
                  => (path' # NoPath /\ path'.transform \notin scene'))
      ]_vars

C5_Witness ==
    /\ lastOp = "redoIt"
    /\ prevOp = "undoIt"
    /\ lastStatus = ConstructionError
    /\ path # NoPath
    /\ path.transform \notin scene

\* C6 as stated: after a successful undoIt the command holds no path.
C6_UndoClearsHandle ==
    (lastOp = "undoIt" /\ lastStatus = kSuccess) => path = NoPath

\* C6: a successful undoIt deletes the transform of the stored path, with
\* the curve under it, and leaves the stored path as it was, naming a node
\* that no longer exists; a later successful redoIt stores the path of the
\* newly built curve, a node that did not exist before.
C6_UndoKeepsStalePath ==
    [][/\ (lastOp' = "undoIt" /\ lastStatus' = kSuccess)
            => /\ path' = path
               /\ path' # NoPath
               /\ path.transform \in scene
               /\ path'.transform \notin scene'
               /\ path'.shape \notin scene'
       /\ (lastOp' = "redoIt" /\ lastStatus' = kSuccess)
            => /\ path' # path
               /\ path'.transform \notin scene
               /\ path'.transform \in scene'
               /\ path'.shape \in scene'
      ]_vars

C6_Witness ==
    /\ lastOp = "redoIt"
    /\ prevOp = "undoIt"
    /\ lastStatus = kSuccess
    /\ state = "Created"
    /\ path.transform \in scene
    /\ path.transform >= 4

\* The doIt of  -r 5 -p 1 -ncv 10 -ud true  has called the constructor.
FlagOverrideScenario ==
    /\ lastOp = "doIt"
    /\ passed.called
    /\ radius = 500
    /\ pitch = 100
    /\ numCV = 10
    /\ upDown

\* C7 as stated: for -r 5 -p 1 -ncv 10 -ud true the knot sequence handed to
\* the curve constructor is [0,1,2,3,4,5,6].
C7_SevenKnots ==
    FlagOverrideScenario => passed.knots = <<0, 1, 2, 3, 4, 5, 6>>

\* C7: for -r 5 -p 1 -ncv 10 -ud true the knot sequence handed to the curve
\* constructor is [0,1,...,11]: 12 knots, spans + 5 for spans = 7.
C7_TwelveKnots ==
    FlagOverrideScenario
        => /\ passed.spans = U32(7)
           /\ passed.knots = <<0, 1, 2, 3, 4, 5, 6, 7, 8, 9, 10, 11>>

C7_Witness ==
    /\ FlagOverrideScenario
    /\ Len(passed.knots) = 12
    /\ passed.cvs[2] = <<500 * 540, -100, 500 * 841>>

\* C8: for numCV > 3 the curve constructor is handed numCV control
\* vertices, degree 3 and (numCV - 3) + 5 knots, knot i being i; for 20
\* control vertices that is 17 spans and 22 knots.
C8_KnotVector ==
    (passed.called /\ numCV > deg)
        => /\ Len(passed.cvs) = numCV
           /\ passed.degree = 3
           /\ passed.spans = U32(numCV - 3)
           /\ Len(passed.knots) = (numCV - 3) + 5
           /\ \A i \in 0..(Len(passed.knots) - 1) : passed.knots[i + 1] = i
           /\ (numCV = 20
                 => (passed.spans = U32(17) /\ Len(passed.knots) = 22))

C8_Witness ==
    /\ passed.called
    /\ numCV = 20
    /\ Len(passed.cvs) = 20
    /\ Len(passed.knots) = 22
    /\ passed.knots[22] = 21

\* C9: finalize on a command whose curve exists leaves radius, pitch,
\* numCV, upDown, the stored path and the scene as they are, hands
\* doFinalize the command name followed by -r radius -p pitch -ncv numCV
\* -ud upDown, and leaves undoIt possible with the effect it had before.
C9_FinalizeFrame ==
    [][(lastOp' = "finalize" /\ state = "Created")
         => /\ params' = params
            /\ path' = path
            /\ scene' = scene
            /\ state' = state
            /\ journal' = <<"helixToolCmd", "-r", radius, "-p", pitch,
                            "-ncv", numCV, "-ud", upDown>>
            /\ (ENABLED undoIt)'
      ]_vars

C9_Witness ==
    /\ lastOp = "undoIt"
    /\ prevOp = "finalize"
    /\ lastStatus = kSuccess
    /\ journal = <<"helixToolCmd", "-r", 500, "-p", 25, "-ncv", 10,
                   "-ud", TRUE>>

\* C10 as stated: for every numCV <= 3, 3 included, spans wraps to a very
\* large value.
C10_UnderflowUpToThree ==
    (passed.called /\ numCV <= deg) => passed.spans.hi >= SignBit16

\* C10: for every numCV < 3, spans = numCV - 3 wraps to 2^32 - (3 - numCV);
\* for numCV = 3 it is 0, with no wrap.  The knot count spans + 5 wraps
\* again, to numCV + 2 knots, and doIt calls the curve constructor with
\* them whenever parseArgs succeeded: no guard rejects the count.
C10_UnderflowBelowThree ==
    /\ (passed.called /\ numCV < deg)
         => /\ passed.spans = [hi |-> W16 - 1, lo |-> W16 - (deg - numCV)]
            /\ Len(passed.knots) = numCV + 2
            /\ Len(passed.cvs) = numCV
    /\ (passed.called /\ numCV = deg)
         => /\ passed.spans = [hi |-> 0, lo |-> 0]
            /\ Len(passed.knots) = 5
            /\ Len(passed.cvs) = 3
    /\ (lastOp = "doIt" /\ lastStatus # ArgumentError /\ numCV <= deg)
         => passed.called

C10_Witness ==
    /\ lastOp = "doIt"
    /\ passed.called
    /\ numCV = 2
    /\ passed.spans = [hi |-> 65535, lo |-> 65535]
    /\ passed.knots = <<0, 1, 2, 3>>

====
